---- MODULE Spec2Model ----
(***************************************************************************)
(* TaskExecutor of cliport_label (src/src/cliport_label/taskexecutor.py):  *)
(* the pick/place chain, the fault flag, the busy check and the motion     *)
(* steps of pick(), place(), home() and execute_cartesian_path().          *)
(*                                                                         *)
(* Lengths are in millimetres (0.01 m = 10), velocity scaling factors in   *)
(* hundredths (0.4 = 40), yaw in the unit of rotation_angles.              *)
(* The control thread runs one method at a time (op, pc, waiting); the two *)
(* rospy subscriber callbacks and the completion of a trajectory that was  *)
(* started with wait=False run between any two of its steps.               *)
(***************************************************************************)
EXTENDS Integers, Sequences, FiniteSets, TLC

\* ------------------------------------------------------------- bounds
\* save_task_to_chain() is offered while both lists are shorter than this.
MaxChain == 2
\* An execute is offered while fewer trajectories than this are in flight.
MaxInFlight == 2
\* The clamp is checked over waypoint heights z_min - MaxBelow .. z_max + MaxAbove.
MaxBelow == 40
MaxAbove == 40

\* -------------------------------------------------- program constants
\* Lengths in mm, velocity scaling factors in hundredths.
z_min == 10
z_max == 300
pick_z_offset_up == 35
pick_z_offset_down == 20
place_z_offset_up == 80
rotation_angles == 10
scale_approach == 40
scale_descend == 5
scale_retreat == 10
scale_place == 20
scale_default == 100

\* GoalStatus codes; the status feed of this model delivers the last two.
PENDING == 0
ACTIVE == 1
SUCCEEDED == 3
FeedStatuses == {ACTIVE, SUCCEEDED}

\* franka_msgs.msg.FrankaState robot modes: REFLEX and one other mode.
RobotModes == {"ROBOT_MODE_MOVE", "ROBOT_MODE_REFLEX"}
\* compute_cartesian_path() planned the whole path (1) or only a part (0).
Fractions == {0, 1}

\* Python's None in a chain slot; a recorded pose is <<z, yaw>>.
None == <<>>
\* self.path_constraints before init_path_constraints() ever ran (the
\* attribute does not exist yet); otherwise the yaw it was computed from.
Unset == -1
\* Yaw of the end effector at the home joint configuration; the arm of this
\* model stands in that orientation when the executor is constructed.
HomeYaw == 0
StartYaws == {HomeYaw}

\* TaskInfo, reduced to what the executor takes from it: the z of the
\* centroid the perception utilities resolve, and the rotation class.
Tasks == {[centroid_z |-> 25, rotation |-> 2], [centroid_z |-> 290, rotation |-> 0]}
\* The pose of a direct execute_cartesian_path call: z_in is the z the caller
\* wrote into it, z the z it holds now (the call clamps it in place), reuse
\* tells that the same pose object was handed to the call before.
Waypoint(z, yaw, scale) ==
    [z_in |-> z, z |-> z, yaw |-> yaw, scale |-> scale, reuse |-> FALSE]
Waypoints == {Waypoint(5, 0, scale_default), Waypoint(150, 20, scale_approach)}
ZRange == (z_min - MaxBelow)..(z_max + MaxAbove)
NoData == [none |-> TRUE]

VARIABLES
    pick_pose,          \* self.pick_pose: sequence of None or <<z, yaw>>
    place_pose,         \* self.place_pose
    robot_in_reflex,    \* self.robot_in_reflex
    robot_mode,         \* msg.robot_mode of the latest FrankaState message
    move_group_status,  \* self.move_group_status
    path_constraints,   \* yaw held by self.path_constraints, or Unset
    default_ee_pose,    \* yaw of self.default_ee_pose
    enable_gripper,     \* config["taskexecutor"]["enable_gripper"]
    ee_yaw,             \* planner side: current yaw of the end effector
    in_flight,          \* planner side: trajectories issued and not finished
    op,                 \* method the control thread is in ("none" when idle)
    pc,                 \* its position in that method
    waiting,            \* TRUE while blocked in move_group.execute(wait=True)
    data,               \* the argument of the running method
    calls,              \* external calls made by the latest step of the method
    seq,                \* history: progress of save_task_to_chain(); pick(); place()
    unfinished          \* history: a slot was opened over an unfinished one
                        \* since the last reset_task()

vars == <<pick_pose, place_pose, robot_in_reflex, robot_mode, move_group_status,
          path_constraints, default_ee_pose, enable_gripper, ee_yaw, in_flight,
          op, pc, waiting, data, calls, seq, unfinished>>

chain == <<pick_pose, place_pose>>
flags == <<robot_in_reflex, robot_mode, move_group_status>>
config == <<default_ee_pose, enable_gripper>>
thread == <<op, pc, waiting, data, calls>>

\* ------------------------------------------------------------ helpers
Call(fn, a, b) == <<fn, a, b>>

Last(list) == list[Len(list)]

\* seq.phase: 1 after save_task_to_chain(), 2 after a pick() that followed it
\* and returned, 3 after a place() that followed that and returned; 0 when the
\* control thread did anything else. seq.ok: is_valid() just before the slot
\* was opened. seq.pick: the TaskInfo of that pick().
NoSeq == [phase |-> 0, ok |-> FALSE, pick |-> NoData]

\* The last entry of the list is there and is None: the slot is unfinished.
LastIsNone(list) == Len(list) > 0 /\ list[Len(list)] = None

\* ------------------------------------------------- the pick/place chain
reset_pick_Skipped(list) == list

\* reset_pick(): the last entry becomes None; an empty list is left alone.
reset_pick(list) ==
    LET task_pos == Len(list) - 1
    IN  IF task_pos > -1 THEN [list EXCEPT ![task_pos + 1] = None] ELSE list

reset_place_FirstEntry(list) ==
    IF Len(list) > 0 THEN [list EXCEPT ![1] = None] ELSE list

\* reset_place(): the same on the place list.
reset_place(list) ==
    LET task_pos == Len(list) - 1
    IN  IF task_pos > -1 THEN [list EXCEPT ![task_pos + 1] = None] ELSE list

record_pick_FirstSlot(list, pose) ==
    IF Len(list) > 0 THEN [list EXCEPT ![1] = pose] ELSE Append(list, pose)

\* pick(), lines 191-195: list[len - 1] = pose; on an empty list the index -1
\* raises IndexError and the pose is appended.
record_pick(list, pose) ==
    LET task_n == Len(list) - 1
    IN  IF Len(list) > 0 THEN [list EXCEPT ![task_n + 1] = pose] ELSE Append(list, pose)

record_place_NoAppend(list, pose) ==
    IF Len(list) > 0 THEN [list EXCEPT ![Len(list)] = pose] ELSE list

\* place(), lines 238-242: the same on the place list.
record_place(list, pose) ==
    LET task_n == Len(list) - 1
    IN  IF Len(list) > 0 THEN [list EXCEPT ![task_n + 1] = pose] ELSE Append(list, pose)

is_valid_NoLength(picks, places) ==
    /\ \A i \in 1..Len(picks) : picks[i] # None
    /\ \A i \in 1..Len(places) : places[i] # None

is_valid_LastOnly(picks, places) ==
    /\ Len(picks) = Len(places)
    /\ Len(picks) > 0 => picks[Len(picks)] # None
    /\ Len(places) > 0 => places[Len(places)] # None

\* is_valid(): `None not in list` for both lists, and equal lengths.
is_valid(picks, places) ==
    LET pick_is_valid == \A i \in 1..Len(picks) : picks[i] # None
        place_is_valid == \A i \in 1..Len(places) : places[i] # None
        same_length == Len(picks) = Len(places)
    IN  pick_is_valid /\ place_is_valid /\ same_length

data_exists_PickOnly(picks, places) ==
    IF Len(picks) = 0 THEN FALSE ELSE picks[Len(picks)] # None

\* data_exists(): both last entries are not None; IndexError (an empty list,
\* index -1) gives False.
data_exists(picks, places) ==
    IF Len(picks) = 0 \/ Len(places) = 0
    THEN FALSE
    ELSE picks[Len(picks)] # None /\ places[Len(places)] # None

\* ------------------------------------------------------ pose resolution
\* get_relative_orientation(ee_wxyz, rotation * rotation_angles): the reference
\* yaw turned by the rotation class times the unit angle.
get_relative_orientation(ee_yaw_ref, angle) == (ee_yaw_ref + angle) % 360

\* pick(), lines 158-165: (target_xyz, target_wxyz).
PickTarget(d, ref) ==
    <<d.centroid_z, get_relative_orientation(ref, d.rotation * rotation_angles)>>

PlaceTarget_ClampedZ(d, ref) ==
    <<IF d.centroid_z + place_z_offset_up > z_max THEN z_max
      ELSE d.centroid_z + place_z_offset_up,
      (ref + d.rotation * rotation_angles) % 360>>

\* place(), lines 214-223: target_xyz[2] += z_offset_up before anything else.
PlaceTarget(d, ref) ==
    <<d.centroid_z + place_z_offset_up,
      get_relative_orientation(ref, d.rotation * rotation_angles)>>

clamp_NoUpperBound(z) == IF z < z_min THEN z_min ELSE z

\* execute_cartesian_path(), lines 275-282: the two ifs, in the code's order.
clamp(z) ==
    LET z1 == IF z < z_min THEN z_min ELSE z
    IN  IF z1 > z_max THEN z_max ELSE z1

\* --------------------------------------------------------- external calls
\* stop(): move_group.stop(), then clear_pose_targets().
StopCalls == <<Call("stop", 0, 0), Call("clear_pose_targets", 0, 0)>>

RecoverCalls_NoPublish == StopCalls

\* recover(): stop(), then the recovery request is published.
RecoverCalls == StopCalls \o <<Call("publish_error_recovery", 0, 0)>>

\* open_gripper() / close_gripper(): one goal, or nothing when the gripper is
\* disabled by the configuration.
OpenGripperCalls(enabled) == IF enabled THEN <<Call("gripper_move", 80, 10)>> ELSE <<>>

CloseGripperCalls(enabled) == IF enabled THEN <<Call("gripper_grasp", 0, 10)>> ELSE <<>>

\* execute_plan(): whether move_group.execute is called, given the status read
\* and whether the plan holds a trajectory (plan[0]).
execute_plan(status, plan_ok) == status # ACTIVE /\ plan_ok

franka_state_callback_NeverCleared(mode) == TRUE

\* ----------------------------------------------------------- callbacks
\* franka_state_callback(msg): the flag follows the latest robot mode.
franka_state_callback(mode) == mode = "ROBOT_MODE_REFLEX"

FrankaStateCallback ==
    /\ \E mode \in RobotModes :
          /\ robot_mode' = mode
          /\ robot_in_reflex' = franka_state_callback(mode)
    /\ UNCHANGED <<chain, move_group_status, path_constraints, config, unfinished, ee_yaw,
                   in_flight, thread, seq>>

\* feedback_callback(data): the last status of a non-empty status list.
feedback_callback(status_list, old) ==
    IF Len(status_list) > 0 THEN status_list[Len(status_list)] ELSE old

FeedbackCallback ==
    /\ \E status_list \in {<<>>} \cup {<<s>> : s \in FeedStatuses} :
          move_group_status' = feedback_callback(status_list, move_group_status)
    /\ UNCHANGED <<chain, robot_in_reflex, robot_mode, path_constraints, config, unfinished, ee_yaw,
                   in_flight, thread, seq>>

\* Planner side: a trajectory nobody waits for (home(wait=False)) finishes.
TrajectoryDone ==
    /\ in_flight > (IF waiting THEN 1 ELSE 0)
    /\ in_flight' = in_flight - 1
    /\ ee_yaw' = HomeYaw
    /\ UNCHANGED <<chain, flags, path_constraints, config, unfinished, thread, seq>>

\* ------------------------------------------------------------ chain calls
ResetPick ==
    /\ pc = "idle"
    /\ pick_pose' = reset_pick(pick_pose)
    /\ op' = "reset_pick"
    /\ pc' = "done"
    /\ seq' = NoSeq
    /\ UNCHANGED <<place_pose, flags, path_constraints, config, unfinished, ee_yaw, in_flight,
                   waiting, data, calls>>

ResetPlace ==
    /\ pc = "idle"
    /\ place_pose' = reset_place(place_pose)
    /\ op' = "reset_place"
    /\ pc' = "done"
    /\ seq' = NoSeq
    /\ UNCHANGED <<pick_pose, flags, path_constraints, config, unfinished, ee_yaw, in_flight,
                   waiting, data, calls>>

ResetTask ==
    /\ pc = "idle"
    /\ pick_pose' = <<>>
    /\ place_pose' = <<>>
    /\ op' = "reset_task"
    /\ pc' = "done"
    /\ seq' = NoSeq
    /\ unfinished' = FALSE
    /\ UNCHANGED <<flags, path_constraints, config, ee_yaw, in_flight,
                   waiting, data, calls>>

SaveTaskToChain ==
    /\ pc = "idle"
    /\ Len(pick_pose) < MaxChain
    /\ Len(place_pose) < MaxChain
    /\ pick_pose' = Append(pick_pose, None)
    /\ place_pose' = Append(place_pose, None)
    /\ op' = "save_task_to_chain"
    /\ pc' = "done"
    /\ seq' = [phase |-> 1, ok |-> is_valid(pick_pose, place_pose), pick |-> NoData]
    /\ unfinished' = (unfinished \/ LastIsNone(pick_pose) \/ LastIsNone(place_pose))
    /\ UNCHANGED <<flags, path_constraints, config, ee_yaw, in_flight,
                   waiting, data, calls>>

\* ------------------------------------------------------- method entries
\* pick(data), lines 144-155: the fault check; recover() when faulted (the
\* pick list is then left as `faulted_picks`), else reset_pick() and stop().
PickEntry(faulted_picks) ==
    /\ pc = "idle"
    /\ \E d \in Tasks : data' = d
    /\ op' = "pick"
    /\ in_flight' = 0
    /\ IF robot_in_reflex
       THEN /\ calls' = RecoverCalls
            /\ pc' = "recovered"
            /\ pick_pose' = faulted_picks
       ELSE /\ pick_pose' = reset_pick(pick_pose)
            /\ calls' = StopCalls
            /\ pc' = "home"
    /\ UNCHANGED <<place_pose, flags, path_constraints, config, unfinished, ee_yaw, waiting, seq>>

Pick_ResetBeforeCheck == PickEntry(reset_pick(pick_pose))

Pick == PickEntry(pick_pose)

\* place(data), lines 199-210.
PlaceEntry(faulted_places) ==
    /\ pc = "idle"
    /\ \E d \in Tasks : data' = d
    /\ op' = "place"
    /\ in_flight' = 0
    /\ IF robot_in_reflex
       THEN /\ calls' = RecoverCalls
            /\ pc' = "recovered"
            /\ place_pose' = faulted_places
       ELSE /\ place_pose' = reset_place(place_pose)
            /\ calls' = StopCalls
            /\ pc' = "home"
    /\ UNCHANGED <<pick_pose, flags, path_constraints, config, unfinished, ee_yaw, waiting, seq>>

Place == PlaceEntry(place_pose)

\* home(wait) called by the operator.
Home ==
    /\ pc = "idle"
    /\ \E w \in BOOLEAN : data' = [wait |-> w]
    /\ op' = "home"
    /\ pc' = "home"
    /\ calls' = <<>>
    /\ seq' = NoSeq
    /\ UNCHANGED <<chain, flags, path_constraints, config, unfinished, ee_yaw, in_flight, waiting>>

\* execute_cartesian_path([pose], scale) called by the operator.
ExecuteCartesianPath ==
    /\ pc = "idle"
    /\ \E w \in Waypoints : data' = w
    /\ op' = "execute_cartesian_path"
    /\ pc' = "cart"
    /\ calls' = <<>>
    /\ seq' = NoSeq
    /\ UNCHANGED <<chain, flags, path_constraints, config, unfinished, ee_yaw, in_flight, waiting>>

\* stop() called by the operator.
Stop ==
    /\ pc = "idle"
    /\ op' = "stop"
    /\ pc' = "done"
    /\ calls' = StopCalls
    /\ in_flight' = 0
    /\ seq' = NoSeq
    /\ UNCHANGED <<chain, flags, path_constraints, config, unfinished, ee_yaw, waiting, data>>

\* recover() called by the operator.
Recover ==
    /\ pc = "idle"
    /\ op' = "recover"
    /\ pc' = "done"
    /\ calls' = RecoverCalls
    /\ in_flight' = 0
    /\ seq' = NoSeq
    /\ UNCHANGED <<chain, flags, path_constraints, config, unfinished, ee_yaw, waiting, data>>

NextPc_CloseBeforeOpen(o, p) ==
    CASE p = "home" -> (IF o = "pick" THEN "approach" ELSE IF o = "place" THEN "move" ELSE "done")
      [] p = "approach" -> (IF o = "pick" THEN "close" ELSE "open")
      [] p = "close" -> "descend"
      [] p = "descend" -> "open"
      [] p = "open" -> (IF o = "pick" THEN "retreat" ELSE "record")
      [] p = "retreat" -> "record"
      [] p = "move" -> "open"
      [] OTHER -> "done"

\* ------------------------------------------------------- method steps
\* The statement that follows step p of method o.
NextPc(o, p) ==
    CASE p = "home" -> (IF o = "pick" THEN "approach" ELSE IF o = "place" THEN "move" ELSE "done")
      [] p = "approach" -> "open"
      [] p = "open" -> (IF o = "pick" THEN "descend" ELSE "record")
      [] p = "descend" -> "close"
      [] p = "close" -> "retreat"
      [] p = "retreat" -> "record"
      [] p = "move" -> "open"
      [] OTHER -> "done"

CartPcs == {"approach", "descend", "retreat", "move", "cart"}

\* The z of the pose passed to execute_cartesian_path at step p. pick() passes
\* the same pose_up object at "approach" and at "retreat", and the first call
\* has clamped it in place.
WaypointZ(o, p, d) ==
    CASE p = "approach" -> d.centroid_z + pick_z_offset_up
      [] p = "descend" -> d.centroid_z - pick_z_offset_down
      [] p = "retreat" -> clamp(d.centroid_z + pick_z_offset_up)
      [] p = "move" -> d.centroid_z + place_z_offset_up
      [] OTHER -> d.z

WaypointYaw(o, p, d, ref) ==
    IF p = "cart" THEN d.yaw
    ELSE get_relative_orientation(ref, d.rotation * rotation_angles)

WaypointScale(o, p, d) ==
    CASE p = "approach" -> scale_approach
      [] p = "descend" -> scale_descend
      [] p = "retreat" -> scale_retreat
      [] p = "move" -> scale_place
      [] OTHER -> d.scale

\* init_path_constraints(): the constraint takes the orientation the end
\* effector has when it is called.
init_path_constraints(current_yaw) == current_yaw

\* home(wait), lines 251-271, up to the point where move_group.execute blocks.
HomeStep ==
    /\ pc = "home"
    /\ ~waiting
    /\ IF robot_in_reflex
       THEN /\ calls' = RecoverCalls
            /\ in_flight' = 0
            /\ pc' = NextPc(op, pc)
            /\ UNCHANGED <<path_constraints, waiting>>
       ELSE \E plan_ok \in BOOLEAN :
            LET wait == IF op = "home" THEN data.wait ELSE TRUE
                exec == execute_plan(move_group_status, plan_ok)
            IN  /\ calls' = <<Call("clear_pose_targets", 0, 0),
                              Call("set_joint_value_target", 0, 0),
                              Call("plan", 0, 0)>>
                             \o (IF exec THEN <<Call("execute", IF wait THEN 1 ELSE 0, 1)>>
                                 ELSE <<>>)
                /\ exec => in_flight < MaxInFlight
                /\ in_flight' = IF exec THEN in_flight + 1 ELSE in_flight
                /\ waiting' = (exec /\ wait)
                /\ pc' = IF exec /\ wait THEN pc ELSE NextPc(op, pc)
                /\ path_constraints' = IF exec /\ wait THEN path_constraints
                                       ELSE init_path_constraints(ee_yaw)
    /\ UNCHANGED <<chain, flags, config, unfinished, ee_yaw, op, data, seq>>

\* execute_cartesian_path(waypoints, scale), lines 275-289, up to the point
\* where move_group.execute blocks. The loop clamps the caller's pose in
\* place; reading self.path_constraints before init_path_constraints() ever
\* ran then raises AttributeError. The fraction of the path that
\* compute_cartesian_path() could plan is dropped (plan, _ = ...) and
\* retime_trajectory() returns a RobotTrajectory, so execute_plan() always
\* takes the plan for a good one. The third field of an execute call is 1
\* when the trajectory handed over covers the whole motion, 0 otherwise.
CartesianStep ==
    /\ pc \in CartPcs
    /\ ~waiting
    /\ IF path_constraints = Unset
       THEN /\ pc' = "raised"
            /\ calls' = <<>>
            /\ UNCHANGED <<in_flight, waiting>>
       ELSE \E fraction \in Fractions :
            LET z == clamp(WaypointZ(op, pc, data))
                exec == execute_plan(move_group_status, TRUE)
            IN  /\ calls' = <<Call("compute_cartesian_path", z, path_constraints),
                              Call("retime_trajectory", WaypointScale(op, pc, data), 0)>>
                             \o (IF exec THEN <<Call("execute", 1, fraction)>> ELSE <<>>)
                /\ exec => in_flight < MaxInFlight
                /\ in_flight' = IF exec THEN in_flight + 1 ELSE in_flight
                /\ waiting' = exec
                /\ pc' = IF exec THEN pc ELSE NextPc(op, pc)
    /\ data' = IF pc = "cart" THEN [data EXCEPT !.z = clamp(data.z)] ELSE data
    /\ UNCHANGED <<chain, flags, path_constraints, config, unfinished, ee_yaw, op, seq>>

\* move_group.execute(plan, wait=True) returns: the trajectory has finished.
\* In home() init_path_constraints() follows.
ExecuteReturns ==
    /\ waiting
    /\ waiting' = FALSE
    /\ in_flight' = in_flight - 1
    /\ pc' = NextPc(op, pc)
    /\ IF pc = "home"
       THEN /\ ee_yaw' = HomeYaw
            /\ path_constraints' = init_path_constraints(HomeYaw)
       ELSE /\ ee_yaw' = WaypointYaw(op, pc, data, default_ee_pose)
            /\ UNCHANGED path_constraints
    /\ UNCHANGED <<chain, flags, config, unfinished, op, data, calls, seq>>

OpenGripper ==
    /\ pc = "open"
    /\ calls' = OpenGripperCalls(enable_gripper)
    /\ pc' = NextPc(op, pc)
    /\ UNCHANGED <<chain, flags, path_constraints, config, unfinished, ee_yaw, in_flight,
                   op, waiting, data, seq>>

CloseGripper ==
    /\ pc = "close"
    /\ calls' = CloseGripperCalls(enable_gripper)
    /\ pc' = NextPc(op, pc)
    /\ UNCHANGED <<chain, flags, path_constraints, config, unfinished, ee_yaw, in_flight,
                   op, waiting, data, seq>>

\* pick() lines 191-195 / place() lines 238-242: the pose is recorded and the
\* method returns.
Record ==
    /\ pc = "record"
    /\ pc' = "done"
    /\ calls' = <<>>
    /\ IF op = "pick"
       THEN /\ pick_pose' = record_pick(pick_pose, PickTarget(data, default_ee_pose))
            /\ seq' = IF seq.phase = 1
                      THEN [seq EXCEPT !.phase = 2, !.pick = data]
                      ELSE NoSeq
            /\ UNCHANGED place_pose
       ELSE /\ place_pose' = record_place(place_pose, PlaceTarget(data, default_ee_pose))
            /\ seq' = IF seq.phase = 2 THEN [seq EXCEPT !.phase = 3] ELSE NoSeq
            /\ UNCHANGED pick_pose
    /\ UNCHANGED <<flags, path_constraints, config, unfinished, ee_yaw, in_flight, op, waiting, data>>

\* The method is over (returned, or raised out of it): the control thread is
\* free for the next call.
Return ==
    /\ pc \in {"done", "recovered", "raised"}
    /\ pc' = "idle"
    /\ op' = "none"
    /\ data' = NoData
    /\ calls' = <<>>
    /\ seq' = IF pc = "done" THEN seq ELSE NoSeq
    /\ UNCHANGED <<chain, flags, path_constraints, config, unfinished, ee_yaw, in_flight, waiting>>

\* ------------------------------------------------------- specification
\* After __init__ (lines 55-111): both lists empty, the flag follows the
\* robot state reported during the constructor's sleep, status PENDING unless
\* the feed already spoke, and home(wait=True) has either run (constraint set) or
\* was replaced by recover() because the robot was in reflex (constraint
\* never set). The executor of this model is configured with the gripper
\* enabled.
Init ==
    /\ pick_pose = <<>>
    /\ place_pose = <<>>
    /\ robot_mode \in RobotModes
    /\ robot_in_reflex = franka_state_callback(robot_mode)
    /\ move_group_status \in {PENDING} \cup FeedStatuses
    /\ ee_yaw \in StartYaws
    /\ default_ee_pose = ee_yaw
    /\ path_constraints \in {Unset, init_path_constraints(ee_yaw)}
    /\ enable_gripper = TRUE
    /\ in_flight = 0
    /\ op = "none"
    /\ pc = "idle"
    /\ waiting = FALSE
    /\ data = NoData
    /\ calls = <<>>
    /\ seq = NoSeq
    /\ unfinished = FALSE

Next ==
    \/ FrankaStateCallback
    \/ FeedbackCallback
    \/ TrajectoryDone
    \/ ResetPick
    \/ ResetPlace
    \/ ResetTask
    \/ SaveTaskToChain
    \/ Pick
    \/ Place
    \/ Home
    \/ ExecuteCartesianPath
    \/ Stop
    \/ Recover
    \/ HomeStep
    \/ CartesianStep
    \/ ExecuteReturns
    \/ OpenGripper
    \/ CloseGripper
    \/ Record
    \/ Return

Spec == Init /\ [][Next]_vars

\* ------------------------------------------- specification of the clamp
\* execute_cartesian_path([pose], scale) with the pose at any height of ZRange.
ExecuteCartesianPathAt ==
    /\ pc = "idle"
    /\ \E z \in ZRange : data' = Waypoint(z, HomeYaw, scale_default)
    /\ op' = "execute_cartesian_path"
    /\ pc' = "cart"
    /\ calls' = <<>>
    /\ seq' = NoSeq
    /\ UNCHANGED <<chain, flags, path_constraints, config, unfinished, ee_yaw, in_flight, waiting>>

\* The caller hands the pose object of the call that just returned to
\* execute_cartesian_path once more.
ExecuteCartesianPathAgain ==
    /\ pc = "done"
    /\ op = "execute_cartesian_path"
    /\ ~data.reuse
    /\ data' = [data EXCEPT !.z_in = data.z, !.reuse = TRUE]
    /\ pc' = "cart"
    /\ calls' = <<>>
    /\ UNCHANGED <<chain, flags, path_constraints, config, unfinished, ee_yaw, in_flight,
                   op, waiting, seq>>

NextClamp ==
    \/ FrankaStateCallback
    \/ FeedbackCallback
    \/ ExecuteCartesianPathAt
    \/ ExecuteCartesianPathAgain
    \/ Pick
    \/ Place
    \/ HomeStep
    \/ CartesianStep
    \/ ExecuteReturns
    \/ OpenGripper
    \/ CloseGripper
    \/ Record
    \/ Return

SpecClamp == Init /\ [][NextClamp]_vars

\* ----------------------------------------------------------------- claims
Range(list) == {list[i] : i \in DOMAIN list}

\* The three calls of recover(), written out.
OnlyRecover ==
    <<<<"stop", 0, 0>>, <<"clear_pose_targets", 0, 0>>, <<"publish_error_recovery", 0, 0>>>>

\* C1: a pick() or place() entered while robot_in_reflex is true makes the
\* calls of recover() (stop, then the recovery request) and nothing else: it
\* ends right there, with the pick list and the place list as they were, and
\* nothing is done between that and its return.
C1_FaultShortCircuit ==
    /\ [][(pc = "idle" /\ op' \in {"pick", "place"} /\ robot_in_reflex)
            => /\ pc' = "recovered"
               /\ calls' = OnlyRecover
               /\ pick_pose' = pick_pose
               /\ place_pose' = place_pose]_vars
    /\ [][pc = "recovered"
            => /\ pc' \in {"recovered", "idle"}
               /\ pick_pose' = pick_pose
               /\ place_pose' = place_pose
               /\ calls' \in {calls, <<>>}]_vars

\* A faulted pick() has ended on a slot that still holds an earlier pose.
C1_Witness ==
    /\ op = "pick"
    /\ pc = "recovered"
    /\ Len(pick_pose) > 0
    /\ Last(pick_pose) # None
    /\ calls = OnlyRecover

\* The calls that plan or execute a trajectory.
MotionCalls == {"plan", "compute_cartesian_path", "retime_trajectory", "execute"}

IssuesMotion(cs) == \E i \in DOMAIN cs : cs[i][1] \in MotionCalls

\* C2: whenever a motion step of a running pick() or place() (home() or an
\* execute_cartesian_path()) is reached in a state where robot_in_reflex is
\* true and does not raise, it plans and executes nothing and calls recover()
\* instead.
C2_FaultCheckedBeforeEveryMotion ==
    [][(robot_in_reflex /\ op \in {"pick", "place"} /\ ~waiting
          /\ pc \in CartPcs \cup {"home"}
          /\ (pc' # pc \/ waiting' # waiting) /\ pc' # "raised")
         => (~IssuesMotion(calls') /\ calls' = OnlyRecover)]_vars

\* C3 as stated: when a pick() (place()) call has ended, the last entry of its
\* list is None or the pose that very call resolved; a call that ended in
\* recover() resolved none.
C3_NoStalePoseAfterAnyCall ==
    /\ (op = "pick" /\ pc \in {"done", "recovered"} /\ Len(pick_pose) > 0)
         => \/ Last(pick_pose) = None
            \/ pc = "done" /\ Last(pick_pose) = PickTarget(data, default_ee_pose)
    /\ (op = "place" /\ pc \in {"done", "recovered"} /\ Len(place_pose) > 0)
         => \/ Last(place_pose) = None
            \/ pc = "done" /\ Last(place_pose) = PlaceTarget(data, default_ee_pose)

\* C3 amended: a pick() (place()) call that passed the fault check at its
\* entry has set the last entry of its list to None before anything else:
\* from then on and until the call records its pose the entry is None, and
\* when the call has returned it is the pose that very call resolved.
C3_NoStalePoseAfterCheckedCall ==
    /\ (op = "pick" /\ pc \notin {"idle", "recovered", "done"} /\ Len(pick_pose) > 0)
         => Last(pick_pose) = None
    /\ (op = "pick" /\ pc = "done")
         => Len(pick_pose) > 0 /\ Last(pick_pose) = PickTarget(data, default_ee_pose)
    /\ (op = "place" /\ pc \notin {"idle", "recovered", "done"} /\ Len(place_pose) > 0)
         => Last(place_pose) = None
    /\ (op = "place" /\ pc = "done")
         => Len(place_pose) > 0 /\ Last(place_pose) = PlaceTarget(data, default_ee_pose)

\* A pick() on the second slot is about to retreat: its entry is None while
\* the first slot keeps its pose.
C3_Witness ==
    /\ op = "pick"
    /\ pc = "retreat"
    /\ Len(pick_pose) = 2
    /\ pick_pose[1] # None
    /\ pick_pose[2] = None

\* C4: is_valid() is true exactly when the two lists have the same length and
\* None is in neither; after a pick() has recorded its pose in a slot whose
\* place entry is None, is_valid() is false.
C4_IsValidIffPairedAndFull ==
    /\ is_valid(pick_pose, place_pose)
         <=> /\ Len(pick_pose) = Len(place_pose)
             /\ None \notin Range(pick_pose)
             /\ None \notin Range(place_pose)
    /\ (op = "pick" /\ pc = "done" /\ Len(place_pose) = Len(pick_pose)
          /\ Last(place_pose) = None)
         => ~is_valid(pick_pose, place_pose)

\* pick() has just recorded its pose in the second slot, the first slot is
\* complete and the second has no place pose.
C4_Witness ==
    /\ op = "pick"
    /\ pc = "done"
    /\ Len(pick_pose) = 2
    /\ Len(place_pose) = 2
    /\ None \notin Range(pick_pose)
    /\ place_pose[1] # None
    /\ place_pose[2] = None
    /\ ~is_valid(pick_pose, place_pose)

\* C5: an execute_cartesian_path() that finds move_group_status ACTIVE (and
\* does not raise) calls the planner for nothing, neither a Cartesian plan nor
\* a retime nor an execute, and leaves the pick list and the place list alone.
C5_BusyCallReachesNoPlanner ==
    [][(pc \in CartPcs /\ ~waiting /\ move_group_status = ACTIVE
          /\ pc' # pc /\ pc' # "raised")
         => /\ calls' = <<>>
            /\ pick_pose' = pick_pose
            /\ place_pose' = place_pose]_vars

\* C6: at most one trajectory is in flight: no execute is issued while an
\* earlier trajectory has not finished.
C6_AtMostOneInFlight == in_flight <= 1

\* C7: the z handed to compute_cartesian_path is always in [z_min, z_max];
\* for a pose passed to execute_cartesian_path with height z_in it is z_min
\* when z_in is below the band, z_max when above, z_in when inside, the pose
\* holds that z afterwards, and a pose passed a second time keeps its z.
C7_ClampedIntoBand ==
    /\ \A i \in DOMAIN calls :
          calls[i][1] = "compute_cartesian_path" => calls[i][2] \in z_min..z_max
    /\ (op = "execute_cartesian_path" /\ Len(calls) > 0)
         => LET z == calls[1][2]
            IN  /\ calls[1][1] = "compute_cartesian_path"
                /\ data.z_in < z_min => z = z_min
                /\ data.z_in > z_max => z = z_max
                /\ data.z_in \in z_min..z_max => z = data.z_in
                /\ data.z = z
                /\ data.reuse => z = data.z_in

\* A pose above the band was handed over and the planner got z_max.
C7_Witness ==
    /\ op = "execute_cartesian_path"
    /\ data.z_in > z_max
    /\ Len(calls) > 0
    /\ calls[1][2] = z_max

\* The pose (z, yaw) that resolving TaskInfo d gives, raised by dz.
ResolvedPose(d, dz) ==
    <<d.centroid_z + dz, (default_ee_pose + d.rotation * rotation_angles) % 360>>

\* C8: after save_task_to_chain(), a pick() and a place() that passed the
\* fault check and returned, the last pick entry is the pose the pick
\* resolved (no offset, not clamped), the last place entry is the pose the
\* place resolved with z raised by place_z_offset_up (not clamped),
\* data_exists() is true, and is_valid() is true when it was true before the
\* slot was opened.
C8_SlotHoldsResolvedPoses ==
    /\ (op = "pick" /\ pc = "done" /\ seq.phase = 2)
         => Last(pick_pose) = ResolvedPose(data, 0)
    /\ (op = "place" /\ pc = "done" /\ seq.phase = 3)
         => /\ Last(pick_pose) = ResolvedPose(seq.pick, 0)
            /\ Last(place_pose) = ResolvedPose(data, place_z_offset_up)
            /\ data_exists(pick_pose, place_pose)
            /\ seq.ok => is_valid(pick_pose, place_pose)

\* The second slot was filled by a pick whose descend was clamped from below
\* and a place whose move was clamped from above; the chain is valid.
C8_Witness ==
    /\ op = "place"
    /\ pc = "done"
    /\ seq.phase = 3
    /\ seq.ok
    /\ Len(pick_pose) = 2
    /\ seq.pick.centroid_z - pick_z_offset_down < z_min
    /\ data.centroid_z + place_z_offset_up > z_max
    /\ is_valid(pick_pose, place_pose)

\* C9: in a slot opened by save_task_to_chain() and picked, a place() entered
\* while robot_in_reflex is true only makes the calls of recover(), the
\* slot's place entry is still None and is_valid() is false.
C9_FaultBetweenPickAndPlace ==
    (op = "place" /\ pc = "recovered" /\ seq.phase = 2)
      => /\ calls = OnlyRecover
         /\ Last(pick_pose) # None
         /\ Last(place_pose) = None
         /\ ~is_valid(pick_pose, place_pose)

\* The faulted place() has ended and the fault is still there.
C9_Witness ==
    /\ op = "place"
    /\ pc = "recovered"
    /\ seq.phase = 2
    /\ robot_in_reflex
    /\ Len(place_pose) = 2

\* What a reset of the last entry does to a list.
OnlyLastToNone(old, new) ==
    /\ Len(new) = Len(old)
    /\ \A i \in 1..(Len(old) - 1) : new[i] = old[i]
    /\ Len(old) > 0 => new[Len(old)] = None

\* C10: reset_pick() and reset_place() return without error; they leave an
\* empty list empty, set exactly the last entry of their own list to None,
\* keep every length and the other list, and a second reset changes nothing.
C10_ResetsOnlyLastEntry ==
    /\ [][(pc = "idle" /\ op' = "reset_pick")
            => /\ pc' = "done"
               /\ OnlyLastToNone(pick_pose, pick_pose')
               /\ place_pose' = place_pose
               /\ reset_pick(pick_pose') = pick_pose']_vars
    /\ [][(pc = "idle" /\ op' = "reset_place")
            => /\ pc' = "done"
               /\ OnlyLastToNone(place_pose, place_pose')
               /\ pick_pose' = pick_pose
               /\ reset_place(place_pose') = place_pose']_vars

\* reset_place() has returned on a two-slot chain: the first slot is complete,
\* the second keeps its pick pose and has lost its place pose.
C10_Witness ==
    /\ op = "reset_place"
    /\ pc = "done"
    /\ Len(place_pose) = 2
    /\ place_pose[1] # None
    /\ place_pose[2] = None
    /\ Len(pick_pose) = 2
    /\ pick_pose[2] # None

\* C11: data_exists() is true exactly when the last entry of the pick list and
\* the last entry of the place list both exist and are not None; on the empty
\* chain (and when only one list is empty) it is false, nothing is raised.
C11_DataExistsIffLastPairSet ==
    /\ data_exists(pick_pose, place_pose) \in BOOLEAN
    /\ data_exists(pick_pose, place_pose)
         <=> /\ pick_pose # <<>>
             /\ place_pose # <<>>
             /\ Last(pick_pose) # None
             /\ Last(place_pose) # None
    /\ (pick_pose = <<>> \/ place_pose = <<>>) => ~data_exists(pick_pose, place_pose)

\* A chain of two slots whose last slot holds a pick pose but no place pose
\* yet, behind a finished first slot: data_exists() is false there although
\* the pick entry is set.
C11_Witness ==
    /\ Len(pick_pose) = 2
    /\ Len(place_pose) = 2
    /\ pick_pose[1] # None
    /\ place_pose[1] # None
    /\ Last(pick_pose) # None
    /\ Last(place_pose) = None
    /\ ~data_exists(pick_pose, place_pose)

\* C12: the chain starts empty; a save_task_to_chain() appends exactly one
\* None to each list and leaves the entries already there unchanged; no other
\* step makes either list longer; reset_task() leaves both lists empty.
C12_GrowsOnlyBySave ==
    /\ pick_pose = <<>> /\ place_pose = <<>>
    /\ [][/\ (pc = "idle" /\ op' = "save_task_to_chain")
               => /\ pick_pose' = pick_pose \o <<None>>
                  /\ place_pose' = place_pose \o <<None>>
          /\ (Len(pick_pose') > Len(pick_pose) \/ Len(place_pose') > Len(place_pose))
               => (pc = "idle" /\ op' = "save_task_to_chain")
          /\ (pc = "idle" /\ op' = "reset_task")
               => (pick_pose' = <<>> /\ place_pose' = <<>>)]_vars

\* What the record step of the running call did to its own list `own`, given
\* the pose the call resolved: a non-empty list keeps its length and gets the
\* pose in its last entry, an empty list becomes the one-entry list of the pose.
Recorded(own, own_next, pose) ==
    IF own # <<>>
    THEN /\ Len(own_next) = Len(own)
         /\ Last(own_next) = pose
    ELSE own_next = <<pose>>

\* C13: when pick() or place() records its pose and its list is non-empty, the
\* pose is written into the last entry and neither list changes its length;
\* when its list is empty (no slot opened) the step does not raise and the
\* list gets a new entry holding the pose. The other list is never touched.
C13_RecordWritesLastOrAppends ==
    [][(pc = "record" /\ pc' # "record")
         => /\ pc' = "done"
            /\ op = "pick"
                 => /\ Recorded(pick_pose, pick_pose', PickTarget(data, default_ee_pose))
                    /\ place_pose' = place_pose
            /\ op = "place"
                 => /\ Recorded(place_pose, place_pose', PlaceTarget(data, default_ee_pose))
                    /\ pick_pose' = pick_pose]_vars

\* A pick() on the chain as constructed has returned: its pose was appended
\* to the pick list, the place list is still empty.
C13_Witness ==
    /\ op = "pick"
    /\ pc = "done"
    /\ pick_pose = <<PickTarget(data, default_ee_pose)>>
    /\ place_pose = <<>>

\* The steps of a pick() that passed the fault check, in the order of the
\* claim; the call is at "home" once it has reset its entry and stopped.
PickOrder == <<"home", "approach", "open", "descend", "close", "retreat", "record", "done">>

\* The control thread takes the step it stands at (it does not sit blocked in
\* an execute, and the step either blocks or moves on).
TakesStep(p) == pc = p /\ ~waiting /\ (waiting' \/ pc' # pc)

\* The planner calls of one Cartesian move to height z at speed scale.
MovesTo(z, scale) ==
    /\ Len(calls') >= 2
    /\ calls'[1] = Call("compute_cartesian_path", clamp(z), path_constraints)
    /\ calls'[2] = Call("retime_trajectory", scale, 0)

\* C14: a pick() that passes the fault check resets its entry and stops, then
\* homes, approaches to target z + 0.035 at 0.4, opens the gripper, descends
\* to target z - 0.02 at 0.05, closes the gripper, retreats to the waypoint of
\* the approach at 0.1 and records, each step at most once and in this order
\* (heights as limited by execute_cartesian_path; a call stopped by the
\* AttributeError of an unset constraint ends at its approach). So the gripper
\* never closes before it opened and the pose is never recorded before the
\* retreat.
C14_PickStepOrder ==
    [][(op' = "pick" /\ ~(pc = "idle" /\ robot_in_reflex))
         => /\ (pc = "idle")
                 => /\ pc' = "home"
                    /\ pick_pose' = reset_pick(pick_pose)
                    /\ calls' = StopCalls
            /\ (pc # "idle" /\ pc' # pc)
                 => \E i \in 1..(Len(PickOrder) - 1) :
                       /\ pc = PickOrder[i]
                       /\ pc' = PickOrder[i + 1]
                            \/ (pc' = "raised" /\ pc = "approach")
            /\ (TakesStep("home"))
                 => \/ calls' = RecoverCalls
                    \/ /\ Len(calls') >= 3
                       /\ calls'[2] = Call("set_joint_value_target", 0, 0)
                       /\ calls'[3] = Call("plan", 0, 0)
            /\ (TakesStep("approach") /\ pc' # "raised")
                 => MovesTo(data.centroid_z + pick_z_offset_up, scale_approach)
            /\ (TakesStep("open"))
                 => calls' = <<Call("gripper_move", 80, 10)>>
            /\ (TakesStep("descend") /\ pc' # "raised")
                 => MovesTo(data.centroid_z - pick_z_offset_down, scale_descend)
            /\ (TakesStep("close"))
                 => calls' = <<Call("gripper_grasp", 0, 10)>>
            /\ (TakesStep("retreat") /\ pc' # "raised")
                 => MovesTo(data.centroid_z + pick_z_offset_up, scale_retreat)
            /\ (pc # "idle" /\ pick_pose' # pick_pose)
                 => /\ pc = "record"
                    /\ Recorded(pick_pose, pick_pose', PickTarget(data, default_ee_pose))]_vars

\* A pick() has gone through all its steps and recorded: the retreat was its
\* last planner step and the pose is in the slot.
C14_Witness ==
    /\ op = "pick"
    /\ pc = "done"
    /\ pick_pose # <<>>
    /\ Last(pick_pose) = PickTarget(data, default_ee_pose)
    /\ data.centroid_z + pick_z_offset_up > z_max

\* C15: the constraint handed to the planner by any Cartesian execution is the
\* one computed at the most recent successful home, so the orientation it
\* holds is the orientation of the home pose.
C15_ConstraintIsHomeOrientation ==
    \A i \in 1..Len(calls) :
        calls[i][1] = "compute_cartesian_path" => calls[i][3] = HomeYaw

\* C16: recover() stops before it publishes the recovery request and leaves
\* robot_in_reflex as it is; the flag changes only in franka_state_callback,
\* where it becomes true exactly when the reported mode is REFLEX, so a
\* faulted executor stays faulted over any number of recover() calls until a
\* report with another mode arrives.
C16_OnlyReportsChangeFaultFlag ==
    /\ [](robot_in_reflex <=> robot_mode = "ROBOT_MODE_REFLEX")
    /\ [](\A i \in 1..Len(calls) :
             calls[i][1] = "publish_error_recovery"
               => \E j \in 1..(i - 1) : calls[j][1] = "stop")
    /\ [][/\ (robot_in_reflex' # robot_in_reflex)
               => /\ robot_mode' # robot_mode
                  /\ UNCHANGED thread
          /\ (calls' # calls \/ pc' # pc)
               => robot_in_reflex' = robot_in_reflex
          /\ (robot_in_reflex /\ ~robot_in_reflex')
               => robot_mode' # "ROBOT_MODE_REFLEX"]_vars

\* recover() itself has run on a faulted executor and the executor is still
\* faulted.
C16_Witness ==
    /\ op = "recover"
    /\ pc = "done"
    /\ calls = RecoverCalls
    /\ robot_in_reflex
    /\ robot_mode = "ROBOT_MODE_REFLEX"

\* C17: a motion step of pick() or place() that is busy-rejected (the status
\* it reads is ACTIVE) or whose planning failed (the planner did not return a
\* trajectory for the whole motion) calls no move_group.execute: every
\* execute such a step issues is issued while not busy and with a complete
\* plan.
C17_RejectedOrFailedStepExecutesNothing ==
    [][(op \in {"pick", "place"} /\ calls' # calls)
         => \A i \in 1..Len(calls') :
               calls'[i][1] = "execute"
                 => /\ move_group_status # ACTIVE
                    /\ calls'[i][3] = 1]_vars

\* C18: in every state reachable from the empty chain by save_task_to_chain(),
\* pick(), place(), reset_pick(), reset_place() and reset_task(), the pick
\* list and the place list have the same length.
C18_ListsStayPaired == Len(pick_pose) = Len(place_pose)

\* Every entry of `list` but the last is still there, unchanged, in list_next.
KeepsNonLast(list, list_next) ==
    \A i \in 1..(Len(list) - 1) : Len(list_next) >= i /\ list_next[i] = list[i]

\* C19: pick() and reset_pick() never change the place list, place() and
\* reset_place() never change the pick list, and no step of any operation
\* other than reset_task() changes an entry at a non-last index of either
\* list: each of the four changes at most the last entry of its own list.
C19_OnlyOwnLastEntry ==
    [][/\ (op' \in {"pick", "reset_pick"}) => place_pose' = place_pose
       /\ (op' \in {"place", "reset_place"}) => pick_pose' = pick_pose
       /\ ~(pc = "idle" /\ op' = "reset_task")
            => /\ KeepsNonLast(pick_pose, pick_pose')
               /\ KeepsNonLast(place_pose, place_pose')]_vars

\* A pick() has recorded into the second slot of a chain whose first slot and
\* whose place entries were all set before.
C19_Witness ==
    /\ op = "pick"
    /\ pc = "done"
    /\ Len(pick_pose) = 2
    /\ Len(place_pose) = 2
    /\ pick_pose[1] # None
    /\ pick_pose[2] = PickTarget(data, default_ee_pose)
    /\ pick_pose[1] # pick_pose[2]
    /\ place_pose[1] # None
    /\ place_pose[2] # None

\* C20: once save_task_to_chain() was called while the last slot still had a
\* None pick or place entry, is_valid() is false in every state until the
\* next reset_task(); and whenever is_valid() is true on a non-empty chain,
\* data_exists() is true as well.
C20_UnfinishedSlotInvalidatesChain ==
    /\ unfinished => ~is_valid(pick_pose, place_pose)
    /\ (is_valid(pick_pose, place_pose) /\ (pick_pose # <<>> \/ place_pose # <<>>))
         => data_exists(pick_pose, place_pose)

\* A second slot was opened over an unfinished first one and has since been
\* filled by a pick() and a place(): the last pair exists, the chain is
\* not valid.
C20_Witness ==
    /\ unfinished
    /\ Len(pick_pose) = 2
    /\ Len(place_pose) = 2
    /\ Last(pick_pose) # None
    /\ Last(place_pose) # None
    /\ data_exists(pick_pose, place_pose)
    /\ ~is_valid(pick_pose, place_pose)

====
